---------------------------- MODULE Spec2Model ----------------------------
(***************************************************************************)
(* A model of the checkout-analyzer scan route (GET /api/analyze).         *)
(*                                                                         *)
(* One scan is a state machine: the request is parsed, the page is         *)
(* fetched and its body read, the synchronous segment after the page fetch *)
(* extracts scripts, anchors and forms and fans the script fetches out,    *)
(* the responses of the script fetches arrive and their bodies are read    *)
(* one by one in any order, and the synchronous segment after Promise.all  *)
(* analyses every script body, builds the report and serialises it.        *)
(*                                                                         *)
(* Strings are TLA+ strings; JavaScript's 0-based offsets are kept as      *)
(* 1-based positions.  All texts are ASCII and none holds U+0000.          *)
(***************************************************************************)
EXTENDS Integers, Sequences, FiniteSets, TLC

(***************************************************************************)
(* Bounds of the model.                                                    *)
(***************************************************************************)
\* longest page (number of elements) of the exhaustively enumerated pages
MaxPageLen == 2
\* most external script tags on a page of the volume family
MaxSrcs == 17
\* most elements of each other kind on a page of the volume family
MaxVolume == 62

(***************************************************************************)
(* Program constants.                                                      *)
(***************************************************************************)
maxScripts == 15
maxSnippets == 3
ContextChars == 80
MaxFindings == 60
MaxAnchors == 50
MaxForms == 50

(***************************************************************************)
(* Strings: characters, case mapping, trimming.                            *)
(***************************************************************************)
Min(a, b) == IF a < b THEN a ELSE b
Max(a, b) == IF a > b THEN a ELSE b

CharAt(s, i) == SubSeq(s, i, i)

UpperToLower ==
  [c \in {"A","B","C","D","E","F","G","H","I","J","K","L","M",
          "N","O","P","Q","R","S","T","U","V","W","X","Y","Z"} |->
     CASE c = "A" -> "a" [] c = "B" -> "b" [] c = "C" -> "c" [] c = "D" -> "d"
       [] c = "E" -> "e" [] c = "F" -> "f" [] c = "G" -> "g" [] c = "H" -> "h"
       [] c = "I" -> "i" [] c = "J" -> "j" [] c = "K" -> "k" [] c = "L" -> "l"
       [] c = "M" -> "m" [] c = "N" -> "n" [] c = "O" -> "o" [] c = "P" -> "p"
       [] c = "Q" -> "q" [] c = "R" -> "r" [] c = "S" -> "s" [] c = "T" -> "t"
       [] c = "U" -> "u" [] c = "V" -> "v" [] c = "W" -> "w" [] c = "X" -> "x"
       [] c = "Y" -> "y" [] c = "Z" -> "z"]

LowerToUpper ==
  [c \in {"a","b","c","d","e","f","g","h","i","j","k","l","m",
          "n","o","p","q","r","s","t","u","v","w","x","y","z"} |->
     CHOOSE u \in DOMAIN UpperToLower : UpperToLower[u] = c]

Digits == {"0","1","2","3","4","5","6","7","8","9"}

\* \w of a regular expression
IsWordChar(c) ==
  c \in DOMAIN UpperToLower \/ c \in DOMAIN LowerToUpper \/ c \in Digits \/ c = "_"

\* the C0 controls U+0001 to U+001F in the order of their codes, written as
\* the characters themselves (tab, line feed, form feed and carriage return
\* by their escapes); no text holds U+0000
C0Controls ==
  <<
     "", "", "", "", "", "", "", "",
     "\t", "\n", "", "\f", "\r", "", "", "",
     "", "", "", "", "", "", "", "",
     "", "", "", "", "", "", "" >>

\* the vertical tab (U+000B)
VerticalTab == C0Controls[11]

\* the delete character (U+007F), written as the character itself
Delete == ""

\* \s of a regular expression and the white space String.prototype.trim
\* strips, among the ASCII characters
WhiteSpace == {" ", "\t", "\n", "\r", "\f", VerticalTab}

RECURSIVE ToLowerCase(_)
ToLowerCase(s) ==
  IF s = "" THEN ""
  ELSE (IF Head(s) \in DOMAIN UpperToLower THEN UpperToLower[Head(s)] ELSE Head(s))
         \o ToLowerCase(Tail(s))

RECURSIVE ToUpperCase(_)
ToUpperCase(s) ==
  IF s = "" THEN ""
  ELSE (IF Head(s) \in DOMAIN LowerToUpper THEN LowerToUpper[Head(s)] ELSE Head(s))
         \o ToUpperCase(Tail(s))

RECURSIVE TrimStart(_)
TrimStart(s) ==
  IF s = "" THEN ""
  ELSE IF Head(s) \in WhiteSpace THEN TrimStart(Tail(s)) ELSE s

RECURSIVE TrimEnd(_)
TrimEnd(s) ==
  IF s = "" THEN ""
  ELSE IF CharAt(s, Len(s)) \in WhiteSpace THEN TrimEnd(SubSeq(s, 1, Len(s) - 1)) ELSE s

Trim(s) == TrimEnd(TrimStart(s))

\* String.prototype.slice(start, end) with 0-based start, exclusive end
Slice(s, start, end) == SubSeq(s, start + 1, end)

\* Array.prototype.slice(0, n)
SliceHead(list, n) == SubSeq(list, 1, Min(Len(list), n))

(***************************************************************************)
(* Regular expressions.  A pattern is a tree; every pattern of the route   *)
(* carries the i flag, so literals are kept in lower case and matched      *)
(* against the lower-cased text.                                           *)
(***************************************************************************)
Lit(s)     == [op |-> "lit",  s |-> ToLowerCase(s), set |-> {}, parts |-> <<>>]
Cls(S)     == [op |-> "cls",  s |-> "", set |-> S,  parts |-> <<>>]
Cat(parts) == [op |-> "cat",  s |-> "", set |-> {}, parts |-> parts]
Alt(parts) == [op |-> "alt",  s |-> "", set |-> {}, parts |-> parts]
Star(r)    == [op |-> "star", s |-> "", set |-> {}, parts |-> <<r>>]
Opt(r)     == [op |-> "opt",  s |-> "", set |-> {}, parts |-> <<r>>]
WordB      == [op |-> "wb",   s |-> "", set |-> {}, parts |-> <<>>]

\* \b at position pos (between the characters pos - 1 and pos)
AtWordBoundary(t, pos) ==
  LET before == pos > 1 /\ IsWordChar(CharAt(t, pos - 1))
      after  == pos <= Len(t) /\ IsWordChar(CharAt(t, pos))
  IN  before # after

\* The positions at which a match of re that starts at pos can end, in the
\* order a backtracking matcher tries them (the first one is the match).
RECURSIVE Ends(_, _, _)
RECURSIVE EndsCat(_, _, _, _)
RECURSIVE EndsEach(_, _, _, _, _)
RECURSIVE EndsAlt(_, _, _, _)
RECURSIVE EndsStar(_, _, _, _)
Ends(re, t, pos) ==
  CASE re.op = "lit" ->
         IF pos + Len(re.s) - 1 <= Len(t) /\ SubSeq(t, pos, pos + Len(re.s) - 1) = re.s
         THEN <<pos + Len(re.s)>> ELSE <<>>
    [] re.op = "cls" ->
         IF pos <= Len(t) /\ CharAt(t, pos) \in re.set THEN <<pos + 1>> ELSE <<>>
    [] re.op = "wb" ->
         IF AtWordBoundary(t, pos) THEN <<pos>> ELSE <<>>
    [] re.op = "cat" -> EndsCat(re.parts, 1, t, pos)
    [] re.op = "alt" -> EndsAlt(re.parts, 1, t, pos)
    [] re.op = "opt" -> Ends(re.parts[1], t, pos) \o <<pos>>
    [] re.op = "star" -> EndsStar(re.parts[1], t, Ends(re.parts[1], t, pos), pos)
EndsCat(parts, k, t, pos) ==
  IF k > Len(parts) THEN <<pos>>
  ELSE EndsEach(parts, k, t, Ends(parts[k], t, pos), 1)
EndsEach(parts, k, t, mids, j) ==
  IF j > Len(mids) THEN <<>>
  ELSE EndsCat(parts, k + 1, t, mids[j]) \o EndsEach(parts, k, t, mids, j + 1)
EndsAlt(parts, k, t, pos) ==
  IF k > Len(parts) THEN <<>>
  ELSE Ends(parts[k], t, pos) \o EndsAlt(parts, k + 1, t, pos)
EndsStar(r, t, mids, pos) ==
  IF mids = <<>> THEN <<pos>>
  ELSE (IF Head(mids) > pos
        THEN EndsStar(r, t, Ends(r, t, Head(mids)), Head(mids)) ELSE <<>>)
       \o EndsStar(r, t, Tail(mids), pos)

NoMatch == [index |-> 0, end |-> 0]

\* RegExp.prototype.exec from lastIndex: the leftmost match at or after
\* position from, as the 1-based position of its first character and the
\* position after its last; NoMatch when there is none.
RECURSIVE ExecFrom(_, _, _)
ExecFrom(re, t, from) ==
  IF from > Len(t) + 1 THEN NoMatch
  ELSE LET e == Ends(re, t, from)
       IN  IF e # <<>> THEN [index |-> from, end |-> e[1]]
           ELSE ExecFrom(re, t, from + 1)

\* RegExp.prototype.test of a pattern without the g flag
Test(re, s) == ExecFrom(re, ToLowerCase(s), 1) # NoMatch

\* String.prototype.match with the g flag: the number of matches found by
\* scanning on from the end of each match (an empty match advances by one).
RECURSIVE CountFrom(_, _, _)
CountFrom(re, t, from) ==
  LET m == ExecFrom(re, t, from)
  IN  IF m = NoMatch THEN 0
      ELSE 1 + CountFrom(re, t, IF m.end = m.index THEN m.end + 1 ELSE m.end)

MatchAllCount(code, re) == CountFrom(re, ToLowerCase(code), 1)

(***************************************************************************)
(* The signature catalog.                                                  *)
(***************************************************************************)
ReSpace == Star(Cls(WhiteSpace))
ReQuote == Cls({"'", "\""})

\* gtag\s*\(\s*['\"]event['\"],\s*['\"]begin_checkout['\"] and its fbq twin
TagCall(fn, first, second) ==
  Cat(<<Lit(fn), ReSpace, Lit("("), ReSpace, ReQuote, Lit(first), ReQuote,
        Lit(","), ReSpace, ReQuote, Lit(second), ReQuote>>)

PATTERNS == <<
  [label |-> "word:checkout", regex |-> Lit("checkout")],
  [label |-> "word:cart", regex |-> Cat(<<WordB, Lit("cart"), WordB>>)],
  [label |-> "begin_checkout (gtag)", regex |-> TagCall("gtag", "event", "begin_checkout")],
  [label |-> "InitiateCheckout (fbq)", regex |-> TagCall("fbq", "track", "InitiateCheckout")],
  [label |-> "Stripe", regex |-> Alt(<<Lit("stripe."), Lit("Stripe.")>>)],
  [label |-> "Shopify",
   regex |-> Alt(<<Lit("Shopify"), Lit("ShopifyAnalytics"), Lit("ShopifyDesignMode")>>)],
  [label |-> "checkoutUrl var",
   regex |-> Cat(<<Lit("checkoutUrl"), ReSpace, Cls({":", "="})>>)],
  [label |-> "order api",
   regex |-> Cat(<<WordB, Alt(<<Lit("order"), Lit("payment"), Lit("transaction")>>),
                   Opt(Cls({"-", "_"})),
                   Alt(<<Lit("api"), Lit("url"), Lit("endpoint")>>), WordB>>)],
  [label |-> "cart endpoints",
   regex |-> Cat(<<Lit("/cart"), Alt(<<Lit(".js"), Lit("/add"), Lit("/update"),
                                       Lit("/clear"), Lit("/change")>>)>>)],
  [label |-> "checkout endpoints",
   regex |-> Cat(<<Lit("/checkout"), Alt(<<WordB, Lit("/"), Lit("?"), Lit("#")>>)>>)],
  [label |-> "klarna", regex |-> Lit("klarna")],
  [label |-> "adyen", regex |-> Lit("adyen")],
  [label |-> "paypal", regex |-> Lit("paypal")],
  [label |-> "apple pay", regex |-> Cat(<<Lit("apple"), ReSpace, Lit("pay")>>)],
  [label |-> "google pay", regex |-> Cat(<<Lit("google"), ReSpace, Lit("pay")>>)] >>

\* /checkout|cart|bag|payment|order/i, the test of an anchor's href
AnchorPattern ==
  Alt(<<Lit("checkout"), Lit("cart"), Lit("bag"), Lit("payment"), Lit("order")>>)

\* /checkout|cart|payment|order/i, the test of a form's action
FormPattern ==
  Alt(<<Lit("checkout"), Lit("cart"), Lit("payment"), Lit("order")>>)

\* /begin_checkout|InitiateCheckout|checkout endpoints|Stripe|Shopify/i,
\* the test of a match's label
StrongPattern ==
  Alt(<<Lit("begin_checkout"), Lit("InitiateCheckout"), Lit("checkout endpoints"),
        Lit("Stripe"), Lit("Shopify")>>)

(***************************************************************************)
(* getSnippets and the match entries of one script body.                   *)
(***************************************************************************)
\* One snippet: the match with up to ContextChars characters on each side.
SnippetAt(text, m) ==
  LET index  == m.index - 1
      start  == Max(0, index - ContextChars)
      finish == Min(Len(text), index + (m.end - m.index) + ContextChars)
  IN  Slice(text, start, finish)

\* The exec loop of getSnippets: lastIndex moves to the end of each match,
\* and the loop breaks once cap snippets are collected.
RECURSIVE SnippetLoop(_, _, _, _, _, _)
SnippetLoop(text, t, re, from, snippets, cap) ==
  LET m == ExecFrom(re, t, from)
  IN  IF m = NoMatch THEN snippets
      ELSE LET pushed == Append(snippets, SnippetAt(text, m))
           IN  IF Len(pushed) >= cap THEN pushed
               ELSE SnippetLoop(text, t, re, m.end, pushed, cap)

getSnippets(source, re, cap) ==
  SnippetLoop(source, ToLowerCase(source), re, 1, <<>>, cap)

\* the count taken from the snippet loop, which stops at the cap
MatchCountCapped(code, re) == Len(getSnippets(code, re, maxSnippets))

\* The count of one signature in one script body.
MatchCount(code, re) == MatchAllCount(code, re)

MatchEntry(code, p) ==
  LET count == MatchCount(code, p.regex)
  IN  [pattern |-> p.label, count |-> count,
       snippets |-> IF count > 0 THEN getSnippets(code, p.regex, maxSnippets) ELSE <<>>]

HasCount(m) == m.count > 0

\* PATTERNS.map(...).filter((m) => m.count > 0)
MatchEntries(code) ==
  SelectSeq([k \in 1..Len(PATTERNS) |-> MatchEntry(code, PATTERNS[k])], HasCount)

(***************************************************************************)
(* URLs.  new URL(url, base) is modelled on http(s) URLs whose host is a   *)
(* domain name, without credentials, port, query, fragment, dot segments,  *)
(* percent signs in the host or characters that are escaped in the path.   *)
(* The empty string stands for null.                                       *)
(***************************************************************************)
HasPrefix(s, p) == Len(s) >= Len(p) /\ SubSeq(s, 1, Len(p)) = p

\* the position of the first "/" of s at or after from, Len(s) + 1 if none
RECURSIVE SlashFrom(_, _)
SlashFrom(s, from) ==
  IF from > Len(s) THEN Len(s) + 1
  ELSE IF CharAt(s, from) = "/" THEN from ELSE SlashFrom(s, from + 1)

\* the position of the last "/" of s at or before upto, 0 if none
RECURSIVE LastSlash(_, _)
LastSlash(s, upto) ==
  IF upto < 1 THEN 0
  ELSE IF CharAt(s, upto) = "/" THEN upto ELSE LastSlash(s, upto - 1)

\* the position of the first character of s at or after from that is not "/"
RECURSIVE SkipSlashes(_, _)
SkipSlashes(s, from) ==
  IF from <= Len(s) /\ CharAt(s, from) = "/" THEN SkipSlashes(s, from + 1) ELSE from

\* the C0 controls and the space
C0OrSpace == {C0Controls[k] : k \in 1..Len(C0Controls)} \cup {" "}

RECURSIVE StripC0Start(_)
StripC0Start(s) ==
  IF s = "" THEN ""
  ELSE IF Head(s) \in C0OrSpace THEN StripC0Start(Tail(s)) ELSE s

RECURSIVE StripC0End(_)
StripC0End(s) ==
  IF s = "" THEN ""
  ELSE IF CharAt(s, Len(s)) \in C0OrSpace THEN StripC0End(SubSeq(s, 1, Len(s) - 1))
  ELSE s

\* What the URL parser does to its input before it reads it: leading and
\* trailing C0 controls and spaces are stripped, tabs and newlines are
\* removed everywhere, and "\" is read as "/" (the scheme is http or https).
RECURSIVE CleanUrlChars(_)
CleanUrlChars(s) ==
  IF s = "" THEN ""
  ELSE (IF Head(s) \in {"\t", "\n", "\r"} THEN ""
        ELSE IF Head(s) = "\\" THEN "/" ELSE Head(s))
       \o CleanUrlChars(Tail(s))

CleanUrl(u) == CleanUrlChars(StripC0End(StripC0Start(u)))

\* the scheme of u with its colon, "" when u does not start with http: or https:
SchemeOf(u) ==
  IF HasPrefix(ToLowerCase(u), "https:") THEN "https:"
  ELSE IF HasPrefix(ToLowerCase(u), "http:") THEN "http:" ELSE ""

\* characters a host may not hold: the C0 controls, the space, the delete
\* character and the delimiters that do not end the host
ForbiddenHostChars == C0OrSpace \cup {Delete, "<", ">", "[", "]", "^", "|"}

\* The authority and the path that follow a scheme: any run of slashes before
\* the host is skipped, an empty host or a host with a forbidden character
\* fails the parse (""), the host is put in lower case and an empty path is "/".
ParseAuthority(scheme, rest) ==
  LET hostAt == SkipSlashes(rest, 1)
      pathAt == SlashFrom(rest, hostAt)
      host   == SubSeq(rest, hostAt, pathAt - 1)
      path   == SubSeq(rest, pathAt, Len(rest))
  IN  IF host = "" \/ \E k \in 1..Len(host) : CharAt(host, k) \in ForbiddenHostChars
      THEN ""
      ELSE scheme \o "//" \o ToLowerCase(host) \o (IF path = "" THEN "/" ELSE path)

\* new URL(u).toString(): "" when the parse throws
ParseAbsolute(u) ==
  LET v      == CleanUrl(u)
      scheme == SchemeOf(v)
  IN  IF scheme = "" THEN ""
      ELSE ParseAuthority(scheme, SubSeq(v, Len(scheme) + 1, Len(v)))

\* new URL(url, base).toString(), base an absolute URL in serialized form.
\* A url with the scheme of the base and no "//" after it is read as a
\* relative reference; a relative reference is a scheme-relative URL
\* (//host/path), an absolute path, the base itself when empty, or a path
\* relative to the directory of the base.
ResolveUrl(url, base) ==
  LET v          == CleanUrl(url)
      scheme     == SchemeOf(v)
      rest       == SubSeq(v, Len(scheme) + 1, Len(v))
      baseScheme == SchemeOf(base)
      pathAt     == SlashFrom(base, Len(baseScheme) + 3)
      origin     == SubSeq(base, 1, pathAt - 1)
      dir        == SubSeq(base, 1, LastSlash(base, Len(base)))
  IN  IF scheme # "" /\ (scheme # baseScheme \/ HasPrefix(rest, "//"))
      THEN ParseAuthority(scheme, rest)
      ELSE IF HasPrefix(rest, "//") THEN ParseAuthority(baseScheme, rest)
      ELSE IF HasPrefix(rest, "/") THEN origin \o rest
      ELSE IF rest = "" THEN base
      ELSE dir \o rest

toAbsoluteUrl(base, url) ==
  IF url = "" THEN "" ELSE ResolveUrl(url, base)

(***************************************************************************)
(* Responses of the network, and the two fetch wrappers.                   *)
(* A response is a network failure (kind "network", with the message of    *)
(* the error thrown, possibly empty) or an HTTP response (kind "http")     *)
(* with its status, its body and its content-length header.  The body of   *)
(* an HTTP response is read after the response has arrived, and reading it *)
(* may fail (bodyFails, with the message of the error thrown).             *)
(***************************************************************************)
ResOk(res) == res.kind = "http" /\ res.status >= 200 /\ res.status <= 299

\* the fetch resolved with a success status and its body was read
Retrieved(res) == ResOk(res) /\ ~res.bodyFails

\* fetchText without its status check (the body of an error page is returned)
fetchTextNoStatusCheck(url, res) ==
  IF res.kind = "network" THEN [threw |-> TRUE, message |-> res.message, html |-> <<>>]
  ELSE IF res.bodyFails THEN [threw |-> TRUE, message |-> res.message, html |-> <<>>]
  ELSE [threw |-> FALSE, message |-> "", html |-> res.doc]

\* fetchText: the body, or the error thrown
fetchText(url, res) ==
  IF res.kind = "network" THEN [threw |-> TRUE, message |-> res.message, html |-> <<>>]
  ELSE IF ~ResOk(res)
  THEN [threw |-> TRUE,
        message |-> "Fetch failed " \o ToString(res.status) \o " for " \o url,
        html |-> <<>>]
  ELSE IF res.bodyFails THEN [threw |-> TRUE, message |-> res.message, html |-> <<>>]
  ELSE [threw |-> FALSE, message |-> "", html |-> res.doc]

\* sizes: a number, null, or NaN
Num(n) == [t |-> "number", v |-> n]
Null   == [t |-> "null", v |-> 0]
NaN    == [t |-> "NaN", v |-> 0]

RECURSIVE DigitsValue(_, _)
DigitsValue(s, acc) ==
  IF s = "" THEN acc
  ELSE DigitsValue(Tail(s),
         10 * acc + (CHOOSE d \in 0..9 : ToString(d) = Head(s)))

AllDigits(s) == \A i \in 1..Len(s) : CharAt(s, i) \in Digits

\* Number(s) of a string: white space is stripped, the empty string is 0,
\* a decimal integer with an optional sign is its value, and any other
\* text of the model (no fractions, exponents, radix prefixes, Infinity) is NaN
NumberOf(s) ==
  LET t      == Trim(s)
      signed == t # "" /\ Head(t) \in {"+", "-"}
      digits == IF signed THEN Tail(t) ELSE t
  IN  IF t = "" THEN Num(0)
      ELSE IF digits # "" /\ AllDigits(digits)
      THEN Num(IF signed /\ Head(t) = "-" THEN 0 - DigitsValue(digits, 0)
               ELSE DigitsValue(digits, 0))
      ELSE NaN

\* res.headers.get("content-length"), "" standing for null
SizeHeader(res) == IF res.hasLength THEN res.contentLength ELSE ""

\* sizeHeader ? Number(sizeHeader) : text.length
SizeOf(sizeHeader, text) ==
  IF sizeHeader # "" THEN NumberOf(sizeHeader) ELSE Num(Len(text))

\* fetchScript without its status check (the body of an error page is analysed)
fetchScriptNoStatusCheck(u, res) ==
  IF res.kind = "network"
  THEN [url |-> u, content |-> "", size |-> Null,
        error |-> IF res.message # "" THEN res.message ELSE "fetch error"]
  ELSE IF res.bodyFails
  THEN [url |-> u, content |-> "", size |-> Null,
        error |-> IF res.message # "" THEN res.message ELSE "fetch error"]
  ELSE [url |-> u, content |-> res.text, size |-> SizeOf(SizeHeader(res), res.text),
        error |-> ""]

\* fetchScript: never throws; error "" stands for no error property
fetchScript(u, res) ==
  IF res.kind = "network"
  THEN [url |-> u, content |-> "", size |-> Null,
        error |-> IF res.message # "" THEN res.message ELSE "fetch error"]
  ELSE IF ~ResOk(res)
  THEN [url |-> u, content |-> "", size |-> Null,
        error |-> "Fetch " \o ToString(res.status)]
  ELSE IF res.bodyFails
  THEN [url |-> u, content |-> "", size |-> Null,
        error |-> IF res.message # "" THEN res.message ELSE "fetch error"]
  ELSE [url |-> u, content |-> res.text, size |-> SizeOf(SizeHeader(res), res.text),
        error |-> ""]

(***************************************************************************)
(* The document.  cheerio's parse of the page is a sequence of elements in *)
(* document order, each with its tag, its attributes (a function from the  *)
(* names of the attributes present to their values) and its content.       *)
(***************************************************************************)
HasAttr(el, name) == name \in DOMAIN el.attrs

\* $(el).attr(name) || dflt
AttrOr(el, name, dflt) ==
  IF HasAttr(el, name) /\ el.attrs[name] # "" THEN el.attrs[name] ELSE dflt

\* the script tags with a src that resolves, as absolute URLs
ScriptSrcsOf(doc, base) ==
  LET Keep(el) == /\ el.tag = "script"
                  /\ AttrOr(el, "src", "") # ""
                  /\ toAbsoluteUrl(base, AttrOr(el, "src", "")) # ""
      kept == SelectSeq(doc, Keep)
  IN  [i \in 1..Len(kept) |-> toAbsoluteUrl(base, AttrOr(kept[i], "src", ""))]

\* the script tags without a src whose content is not blank, as their content
InlineScriptsOf(doc) ==
  LET Keep(el) == /\ el.tag = "script"
                  /\ AttrOr(el, "src", "") = ""
                  /\ Trim(el.body) # ""
      kept == SelectSeq(doc, Keep)
  IN  [i \in 1..Len(kept) |-> kept[i].body]

AnchorTest(href) == Test(AnchorPattern, href)

FormTest(action) == Test(FormPattern, action)

\* toAbsoluteUrl(base, raw) || raw
AbsoluteOrRaw(base, raw) ==
  IF toAbsoluteUrl(base, raw) # "" THEN toAbsoluteUrl(base, raw) ELSE raw

AnchorsOf(doc, base) ==
  LET Keep(el) == /\ el.tag = "a"
                  /\ HasAttr(el, "href")
                  /\ AnchorTest(AttrOr(el, "href", ""))
      kept == SelectSeq(doc, Keep)
  IN  [i \in 1..Len(kept) |->
         [href |-> AbsoluteOrRaw(base, AttrOr(kept[i], "href", "")),
          text |-> Trim(kept[i].body)]]

FormsOf(doc, base) ==
  LET Keep(el) == /\ el.tag = "form"
                  /\ FormTest(AttrOr(el, "action", ""))
      kept == SelectSeq(doc, Keep)
  IN  [i \in 1..Len(kept) |->
         [action |-> AbsoluteOrRaw(base, AttrOr(kept[i], "action", "")),
          method |-> ToUpperCase(AttrOr(kept[i], "method", "GET"))]]

\* every script URL, without the cap
TargetsAll(srcs) == srcs

\* scriptSrcs.slice(0, maxScripts)
Targets(srcs) == SliceHead(srcs, maxScripts)

(***************************************************************************)
(* Promise.all over the fetchScript calls: the result array is indexed by  *)
(* the position of the call, whatever the order in which the calls settle. *)
(***************************************************************************)
Unsettled == [url |-> "", content |-> "", size |-> Null, error |-> "unsettled"]

\* a result array filled in the order the calls settle
PromiseAllByCompletion(results, i, r) ==
  [results EXCEPT ![1 + Cardinality({j \in 1..Len(results) : results[j] # Unsettled})] = r]

PromiseAllSettle(results, i, r) == [results EXCEPT ![i] = r]

(***************************************************************************)
(* Findings, summary and report.                                           *)
(***************************************************************************)
InlineFinding(code) ==
  [url |-> "inline", inline |-> TRUE, size |-> Num(Len(code)),
   matches |-> MatchEntries(code)]

ExternalFinding(sf) ==
  [url |-> sf.url, inline |-> FALSE, size |-> sf.size,
   matches |-> MatchEntries(sf.content)]

\* the two analysis loops: inline scripts first, then the fetched scripts
FindingsOf(inlines, results) ==
  [i \in 1..Len(inlines) |-> InlineFinding(inlines[i])]
    \o [j \in 1..Len(results) |-> ExternalFinding(results[j])]

HasError(sf) == sf.error # ""

\* the errors pushed by the second analysis loop
ScriptErrors(results) ==
  LET failed == SelectSeq(results, HasError)
  IN  [i \in 1..Len(failed) |->
         "Script " \o failed[i].url \o " error: " \o failed[i].error]

HasMatches(f) == Len(f.matches) > 0

ScriptsWithMatches(fs) == Len(SelectSeq(fs, HasMatches))

RECURSIVE SumCounts(_)
SumCounts(ms) == IF ms = <<>> THEN 0 ELSE Head(ms).count + SumCounts(Tail(ms))

RECURSIVE TotalMatches(_)
TotalMatches(fs) ==
  IF fs = <<>> THEN 0 ELSE SumCounts(Head(fs).matches) + TotalMatches(Tail(fs))

AnyStrong(fs) ==
  \E i \in 1..Len(fs) : \E j \in 1..Len(fs[i].matches) :
     Test(StrongPattern, fs[i].matches[j].pattern)

AnchorsIndicator == "anchors to checkout/cart found"
FormsIndicator == "forms posting to checkout/cart found"

Indicators(anchors, forms) ==
  (IF Len(anchors) > 0 THEN <<AnchorsIndicator>> ELSE <<>>)
    \o (IF Len(forms) > 0 THEN <<FormsIndicator>> ELSE <<>>)

Surfaced(f) == IF f.inline THEN Len(f.matches) > 0 ELSE TRUE

\* findings.filter((f) => f.inline ? f.matches.length > 0 : true)
Retained(fs) == SelectSeq(fs, Surfaced)

\* the count of the findings the report lists rather than of all findings
TotalScriptsRetained(fs) == Len(Retained(fs))

TotalScripts(fs) == Len(fs)

\* a verdict that anchor hits can flip
LikelyWithAnchors(fs, anchors, forms) ==
  AnyStrong(fs) \/ ScriptsWithMatches(fs) > 0 \/ Len(anchors) > 0

LikelyHasCheckout(fs, anchors, forms) == AnyStrong(fs) \/ ScriptsWithMatches(fs) > 0

\* a cap that keeps the tail of the list instead of its head
CappedTail(list, cap) ==
  SubSeq(list, Max(1, Len(list) - cap + 1), Len(list))

\* list.slice(0, cap) of the report's lists
Capped(list, cap) == SliceHead(list, cap)

\* a property that holds a value, and a property that is undefined
Defined(x) == [defined |-> TRUE, value |-> x]
Undefined  == [defined |-> FALSE, value |-> <<>>]

\* the body object; fetchedAt (the clock) is left out
ReportBody(url, fs, anchors, forms, errs) ==
  [url |-> url,
   summary |-> [totalScripts |-> TotalScripts(fs),
                scriptsWithMatches |-> ScriptsWithMatches(fs),
                totalMatches |-> TotalMatches(fs),
                likelyHasCheckout |-> LikelyHasCheckout(fs, anchors, forms),
                indicators |-> Indicators(anchors, forms)],
   findings |-> Capped(Retained(fs), MaxFindings),
   anchorsToCheckout |-> Capped(anchors, MaxAnchors),
   formsToCheckout |-> Capped(forms, MaxForms),
   errors |-> IF Len(errs) > 0 THEN Defined(errs) ELSE Undefined]

(***************************************************************************)
(* JSON.stringify: what the client receives.  A number that is not finite  *)
(* is written as null, and a property whose value is undefined is left     *)
(* out; strings, booleans, finite numbers, null and arrays are kept.       *)
(***************************************************************************)
JsonNumber(n) == IF n.t = "number" THEN n ELSE Null

JsonFinding(f) == [f EXCEPT !.size = JsonNumber(f.size)]

JsonFindings(fs) == [k \in 1..Len(fs) |-> JsonFinding(fs[k])]

\* JSON.stringify(body) of the report, as the value the text denotes
StringifyReport(body) ==
  LET kept == [url |-> body.url,
               summary |-> body.summary,
               findings |-> JsonFindings(body.findings),
               anchorsToCheckout |-> body.anchorsToCheckout,
               formsToCheckout |-> body.formsToCheckout]
  IN  IF body.errors.defined THEN kept @@ [errors |-> body.errors.value] ELSE kept

\* JSON.stringify({ error: message })
StringifyError(message) == [error |-> message]

\* the headers of a Response built from a string without a content type
\* (no cache-control header: "")
TextHeaders == [contentType |-> "text/plain;charset=UTF-8", cacheControl |-> ""]

\* the headers the route sets on the report
JsonHeaders == [contentType |-> "application/json", cacheControl |-> "no-store"]

(***************************************************************************)
(* The environment: the request, the pages a site may serve and the        *)
(* responses the network may give to a script fetch.                       *)
(***************************************************************************)
El(tag, attrs, body) == [tag |-> tag, attrs |-> attrs, body |-> body]

NoAttrs == [n \in {} |-> ""]

\* the url parameter of the request; "" stands for a missing parameter
Requests == {"", "not a url", "https://shop.test"}

Elements ==
  { El("script", [src |-> "/a.js"], ""),
    El("script", [src |-> "//cdn.test/b.js"], ""),
    El("script", [src |-> "http://"], ""),
    El("script", [src |-> ""], "gtag('event', 'begin_checkout')"),
    El("script", NoAttrs, "paypal paypal paypal paypal"),
    El("script", NoAttrs, "var x = 1;"),
    El("script", NoAttrs, " \n" \o VerticalTab),
    El("a", [href |-> "/cart"], " Cart "),
    El("a", [href |-> "/my-BAG"], "Bag"),
    El("a", [href |-> "/about"], "About"),
    El("form", [action |-> "/checkout", method |-> "post"], ""),
    El("form", [action |-> "/bag/add"], ""),
    El("form", NoAttrs, "") }

\* a page that interleaves external and inline scripts
MixedDoc ==
  << El("script", [src |-> "/a.js"], ""),
     El("script", NoAttrs, "klarna"),
     El("script", [src |-> "//cdn.test/b.js"], ""),
     El("script", NoAttrs, "var x = 1;"),
     El("a", [href |-> "/cart"], " Cart "),
     El("form", [action |-> "/checkout", method |-> "post"], "") >>

\* every page of at most MaxPageLen elements, and the mixed page
Docs == UNION { [1..n -> Elements] : n \in 0..MaxPageLen } \cup {MixedDoc}

\* a page of the volume family: v inline scripts, v anchors and v forms that
\* all qualify and all differ, then n external scripts
VolumeDoc(n, v) ==
  [i \in 1..v |-> El("script", NoAttrs,
                     IF i % 2 = 0 THEN "cart" ELSE "checkout " \o ToString(i))]
  \o [i \in 1..v |-> El("a", [href |-> "/cart/" \o ToString(i)], ToString(i))]
  \o [i \in 1..v |-> El("form", [action |-> "/order/" \o ToString(i),
                                 method |-> "post"], "")]
  \o [i \in 1..n |-> El("script", [src |-> "/s" \o ToString(i) \o ".js"], "")]

VolumeDocs ==
  { VolumeDoc(n, 0) : n \in maxScripts..MaxSrcs }
    \cup { VolumeDoc(1, v) : v \in (MaxAnchors - 1)..MaxVolume }

PageResponse(kind, status, doc, bodyFails, message) ==
  [kind |-> kind, status |-> status, doc |-> doc, bodyFails |-> bodyFails,
   message |-> message]

\* what the site may answer to the page fetch: the page, an error page, a
\* page whose body cannot be read to the end, or a network failure (whose
\* error may carry no message)
SitesOf(docs) ==
  { PageResponse("http", st, d, FALSE, "") : st \in {200, 500}, d \in docs }
    \cup { PageResponse("http", 200, d, TRUE, "terminated") : d \in docs }
    \cup { PageResponse("network", 0, <<>>, FALSE, m) : m \in {"fetch failed", ""} }

\* a response to a script fetch, as it arrives: its body is not read yet
ScriptResponse(kind, status, text, hasLength, contentLength, message) ==
  [kind |-> kind, status |-> status, text |-> text, hasLength |-> hasLength,
   contentLength |-> contentLength, bodyFails |-> FALSE, message |-> message]

\* how the reading of a body may end: it is read, or the read throws
BodyOutcomes ==
  { [fails |-> FALSE, message |-> ""], [fails |-> TRUE, message |-> "terminated"] }

\* the response res once the reading of its body has ended with outcome out
WithBody(res, out) == [res EXCEPT !.bodyFails = out.fails, !.message = out.message]

MissingResponse == ScriptResponse("http", 404, "checkout not found", FALSE, "", "")

ScriptResponses ==
  { ScriptResponse("http", 200, "/checkout/ cart", FALSE, "", ""),
    ScriptResponse("http", 200, "var a;", TRUE, "42", ""),
    ScriptResponse("http", 200, "paypal", TRUE, "abc", ""),
    MissingResponse,
    ScriptResponse("network", 0, "", FALSE, "", "fetch failed"),
    ScriptResponse("network", 0, "", FALSE, "", "") }

VolumeResponse == ScriptResponse("http", 200, "cart", FALSE, "", "")

\* what the content network answers: a script with a content-length that is
\* not a number, no script, or nothing
CdnResponses ==
  { ScriptResponse("http", 200, "paypal", TRUE, "abc", ""),
    MissingResponse,
    ScriptResponse("network", 0, "", FALSE, "", "fetch failed") }

\* the responses the network may give to the fetch of script u: any
\* response for the script the site hosts, those of the content network for
\* the script it hosts; of the scripts of the volume family the first is
\* served or missing and the others are missing
ResponsesFor(u) ==
  IF u = "https://shop.test/a.js" THEN ScriptResponses
  ELSE IF u = "https://cdn.test/b.js" THEN CdnResponses
  ELSE IF u = "https://shop.test/s1.js" THEN {VolumeResponse, MissingResponse}
  ELSE {MissingResponse}

Pending == ScriptResponse("pending", 0, "", FALSE, "", "")

(***************************************************************************)
(* The scan.                                                               *)
(***************************************************************************)
VARIABLES
  pc,                 \* where the handler is
  request,            \* the url parameter
  site,               \* the answer of the site to the page fetch
  base,               \* base.toString()
  errors,
  scriptSrcs, inlineScripts, anchorsToCheckout, formsToCheckout,
  targets,
  fetchLog,           \* every fetch issued, in order
  arrived,            \* per target, the response once it has arrived
  outOfOrder,         \* some call settled before the call of an earlier target
  fetched,            \* the result array of Promise.all
  findings,
  response            \* the HTTP response of the route

vars == <<pc, request, site, base, errors, scriptSrcs, inlineScripts,
          anchorsToCheckout, formsToCheckout, targets, fetchLog, arrived,
          outOfOrder, fetched, findings, response>>

NoResponse == [status |-> 0, headers |-> TextHeaders, body |-> [error |-> ""]]

InitWith(sites) ==
  /\ pc = "start"
  /\ request \in Requests
  /\ site \in sites
  /\ base = ""
  /\ errors = <<>>
  /\ scriptSrcs = <<>>
  /\ inlineScripts = <<>>
  /\ anchorsToCheckout = <<>>
  /\ formsToCheckout = <<>>
  /\ targets = <<>>
  /\ fetchLog = <<>>
  /\ arrived = <<>>
  /\ outOfOrder = FALSE
  /\ fetched = <<>>
  /\ findings = <<>>
  /\ response = NoResponse

Init == InitWith(SitesOf(Docs))

InitVolume == InitWith(SitesOf(VolumeDocs))

\* the url parameter is missing or does not parse: 400, and nothing else runs
RejectRequest ==
  /\ pc = "start"
  /\ \/ /\ request = ""
        /\ response' = [status |-> 400, headers |-> TextHeaders,
                        body |-> StringifyError("Missing url")]
     \/ /\ request # ""
        /\ ParseAbsolute(request) = ""
        /\ response' = [status |-> 400, headers |-> TextHeaders,
                        body |-> StringifyError("Invalid url")]
  /\ pc' = "rejected"
  /\ UNCHANGED <<request, site, base, errors, scriptSrcs, inlineScripts,
                 anchorsToCheckout, formsToCheckout, targets, fetchLog, arrived,
                 outOfOrder, fetched, findings>>

\* the url parses: the page fetch is issued
StartScan ==
  /\ pc = "start"
  /\ request # ""
  /\ ParseAbsolute(request) # ""
  /\ base' = ParseAbsolute(request)
  /\ fetchLog' = <<[kind |-> "page", pos |-> 0, url |-> base']>>
  /\ pc' = "fetching_page"
  /\ UNCHANGED <<request, site, errors, scriptSrcs, inlineScripts,
                 anchorsToCheckout, formsToCheckout, targets, arrived,
                 outOfOrder, fetched, findings, response>>

\* The synchronous segment that follows fetchText: its error is recorded,
\* the document is parsed, scripts, anchors and forms are collected, and
\* fetchScript is called on every target.
ExtractAndFanOut(got) ==
  LET doc  == got.html
      srcs == ScriptSrcsOf(doc, base)
      tgts == Targets(srcs)
  IN  /\ errors' = IF got.threw
                   THEN <<IF got.message # "" THEN got.message
                          ELSE "Failed to fetch " \o base>>
                   ELSE <<>>
      /\ scriptSrcs' = srcs
      /\ inlineScripts' = InlineScriptsOf(doc)
      /\ anchorsToCheckout' = AnchorsOf(doc, base)
      /\ formsToCheckout' = FormsOf(doc, base)
      /\ targets' = tgts
      /\ fetchLog' = fetchLog \o
           [i \in 1..Len(tgts) |-> [kind |-> "script", pos |-> i, url |-> tgts[i]]]
      /\ arrived' = [i \in 1..Len(tgts) |-> Pending]
      /\ fetched' = [i \in 1..Len(tgts) |-> Unsettled]
      /\ pc' = "awaiting_scripts"

\* The page fetch settles.  A network failure or a status that is not a
\* success makes fetchText throw at once; otherwise fetchText goes on to
\* read the body.
PageResponds ==
  /\ pc = "fetching_page"
  /\ IF ResOk(site)
     THEN /\ pc' = "reading_page"
          /\ UNCHANGED <<errors, scriptSrcs, inlineScripts, anchorsToCheckout,
                         formsToCheckout, targets, fetchLog, arrived, fetched>>
     ELSE ExtractAndFanOut(fetchText(base, site))
  /\ UNCHANGED <<request, site, base, outOfOrder, findings, response>>

\* the reading of the page's body ends: fetchText returns it, or throws
PageBodySettles ==
  /\ pc = "reading_page"
  /\ ExtractAndFanOut(fetchText(base, site))
  /\ UNCHANGED <<request, site, base, outOfOrder, findings, response>>

\* no response to the fetch of target i yet
IsPending(i) == arrived[i].kind = "pending"

\* the call of fetchScript on target i has not resolved yet
IsUnsettled(i) == fetched[i] = Unsettled

\* the response of target i has arrived with a success status and
\* fetchScript is reading its body
IsReading(i) == ~IsPending(i) /\ IsUnsettled(i)

\* The fetch of target i settles with res.  A network failure or a status
\* that is not a success resolves the call of fetchScript at once (the
\* catch); otherwise fetchScript goes on to read the body.
ScriptResponds(i, res) ==
  /\ pc = "awaiting_scripts"
  /\ IsPending(i)
  /\ arrived' = [arrived EXCEPT ![i] = res]
  /\ IF ResOk(res)
     THEN UNCHANGED <<fetched, outOfOrder>>
     ELSE /\ fetched' = PromiseAllSettle(fetched, i, fetchScript(targets[i], res))
          /\ outOfOrder' = (outOfOrder \/ \E j \in 1..(i - 1) : IsUnsettled(j))
  /\ UNCHANGED <<pc, request, site, base, errors, scriptSrcs, inlineScripts,
                 anchorsToCheckout, formsToCheckout, targets, fetchLog, findings,
                 response>>

\* the reading of the body of target i ends with out, and the call of
\* fetchScript resolves
ScriptBodySettles(i, out) ==
  /\ pc = "awaiting_scripts"
  /\ IsReading(i)
  /\ arrived' = [arrived EXCEPT ![i] = WithBody(arrived[i], out)]
  /\ fetched' = PromiseAllSettle(fetched, i, fetchScript(targets[i], arrived'[i]))
  /\ outOfOrder' = (outOfOrder \/ \E j \in 1..(i - 1) : IsUnsettled(j))
  /\ UNCHANGED <<pc, request, site, base, errors, scriptSrcs, inlineScripts,
                 anchorsToCheckout, formsToCheckout, targets, fetchLog, findings,
                 response>>

\* Promise.all has resolved: every script body is analysed, the report is
\* built and its serialisation is sent
BuildReport ==
  /\ pc = "awaiting_scripts"
  /\ \A i \in 1..Len(targets) : ~IsUnsettled(i)
  /\ findings' = FindingsOf(inlineScripts, fetched)
  /\ errors' = errors \o ScriptErrors(fetched)
  /\ response' = [status |-> 200, headers |-> JsonHeaders,
                  body |-> StringifyReport(
                             ReportBody(base, findings', anchorsToCheckout,
                                        formsToCheckout, errors'))]
  /\ pc' = "done"
  /\ UNCHANGED <<request, site, base, scriptSrcs, inlineScripts, anchorsToCheckout,
                 formsToCheckout, targets, fetchLog, arrived, outOfOrder, fetched>>

Next ==
  \/ RejectRequest
  \/ StartScan
  \/ PageResponds
  \/ PageBodySettles
  \/ \E i \in 1..Len(targets) : \E res \in ResponsesFor(targets[i]) : ScriptResponds(i, res)
  \/ \E i \in 1..Len(targets) : \E out \in BodyOutcomes : ScriptBodySettles(i, out)
  \/ BuildReport

Spec == Init /\ [][Next]_vars

SpecVolume == InitVolume /\ [][Next]_vars

(***************************************************************************)
(* Properties.                                                             *)
(***************************************************************************)
Done == pc = "done"

Report == response.body

\* the script fetches issued so far, in order
ScriptFetches ==
  LET IsScriptFetch(f) == f.kind = "script"
  IN  SelectSeq(fetchLog, IsScriptFetch)

\* the finding built for target i
FindingOfTarget(i) == findings[Len(inlineScripts) + i]

\* the text that finding k was built from
TextOfFinding(k) ==
  IF k <= Len(inlineScripts) THEN inlineScripts[k]
  ELSE fetched[k - Len(inlineScripts)].content

\* the findings that pass the report's filter, by their positions in findings
SurfacedPositions ==
  {k \in 1..Len(findings) : ~findings[k].inline \/ Len(findings[k].matches) > 0}

\* the finding built for target i, as the client receives it
SentFindingOfTarget(i) == JsonFinding(FindingOfTarget(i))

\* the message a failed script fetch is reported with
FailureMessage(res) ==
  IF res.kind = "http" /\ ~ResOk(res) THEN "Fetch " \o ToString(res.status)
  ELSE IF res.message # "" THEN res.message ELSE "fetch error"

InSeq(x, list) == \E k \in 1..Len(list) : list[k] = x

\* C1 (as claimed): in every report, summary.totalScripts is the number of
\* retained findings, that is every external finding plus the inline
\* findings with at least one match.
C1_TotalScriptsCountsRetained ==
  Done => Report.summary.totalScripts = Cardinality(SurfacedPositions)

\* C1 (amended): in every report, summary.totalScripts is the number of
\* analysed script bodies: every non-blank inline script, with or without
\* matches, plus every retrieved external script; it is never less than the
\* number of findings the report lists.
C1_TotalScriptsCountsAnalysed ==
  Done => /\ Report.summary.totalScripts = Len(inlineScripts) + Len(targets)
          /\ Report.summary.totalScripts >= Len(Report.findings)

C1_Witness ==
  /\ Done
  /\ Len(targets) > 0
  /\ \E k \in 1..Len(inlineScripts) : findings[k].matches = <<>>
  /\ Report.summary.totalScripts > Len(Report.findings)

\* C2: a fetch is issued for exactly the first 15 resolvable script URLs of
\* the page, in document order, and never for a URL at position 16 or later.
C2_OnlyFirstFifteenFetched ==
  /\ Len(ScriptFetches) <= 15
  /\ \A k \in 1..Len(ScriptFetches) :
        /\ ScriptFetches[k].pos = k
        /\ ScriptFetches[k].url = scriptSrcs[k]
  /\ pc \in {"awaiting_scripts", "done"} =>
        Len(ScriptFetches) = Min(15, Len(scriptSrcs))

C2_Witness ==
  /\ Done
  /\ Len(scriptSrcs) > 15
  /\ Len(ScriptFetches) = 15

\* C3: whatever the order in which the script fetches settle and whatever
\* their outcomes, the i-th result is the result of the fetch of the i-th
\* target, and the report lists the external findings in target order after
\* all the inline findings.
C3_ResultsInInputOrder ==
  /\ \A i \in 1..Len(fetched) :
        /\ IsPending(i) => IsUnsettled(i)
        /\ ~IsUnsettled(i) =>
              /\ fetched[i].url = targets[i]
              /\ fetched[i].content
                   = (IF Retrieved(arrived[i]) THEN arrived[i].text ELSE "")
              /\ (fetched[i].error = "") = Retrieved(arrived[i])
  /\ Done =>
        LET fs  == Report.findings
            ext == {k \in 1..Len(fs) : ~fs[k].inline}
            ni  == Len(fs) - Cardinality(ext)
        IN  /\ ext = (ni + 1)..Len(fs)
            /\ Cardinality(ext) = Len(targets)
            /\ \A i \in 1..Len(targets) :
                  /\ fs[ni + i].url = targets[i]
                  /\ fs[ni + i] = SentFindingOfTarget(i)

C3_Witness ==
  /\ Done
  /\ outOfOrder
  /\ Len(targets) >= 2
  /\ targets[1] # targets[2]
  /\ Retrieved(arrived[1])
  /\ ~ResOk(arrived[2])
  /\ \E k \in 1..Len(Report.findings) : Report.findings[k].inline

\* C4: a failed script fetch does not fail the scan: the report is returned,
\* the finding of that URL has no matches and a null size, the errors list
\* names the URL and the failure, and the other scripts are analysed as if
\* nothing had failed.
C4_FailedScriptIsReported ==
  Done =>
    \A i \in 1..Len(targets) :
      IF Retrieved(arrived[i])
      THEN /\ FindingOfTarget(i).matches = MatchEntries(arrived[i].text)
           /\ FindingOfTarget(i).size # Null
           /\ InSeq(SentFindingOfTarget(i), Report.findings)
      ELSE /\ response.status = 200
           /\ FindingOfTarget(i).url = targets[i]
           /\ FindingOfTarget(i).matches = <<>>
           /\ FindingOfTarget(i).size = Null
           /\ InSeq(SentFindingOfTarget(i), Report.findings)
           /\ "errors" \in DOMAIN Report
           /\ InSeq("Script " \o targets[i] \o " error: " \o FailureMessage(arrived[i]),
                    Report.errors)

C4_Witness ==
  /\ Done
  /\ \E i, j \in 1..Len(targets) :
        /\ arrived[i].kind = "http" /\ arrived[i].status = 404
        /\ Retrieved(arrived[j])
        /\ Len(FindingOfTarget(j).matches) > 0

\* C5: when the page fetch fails the scan still returns a report: its errors
\* list holds the page-fetch failure, its findings, anchors and forms are
\* empty, the verdict is false, and no script fetch is ever issued.
C5_PageFailureYieldsEmptyReport ==
  ~Retrieved(site) =>
    /\ ScriptFetches = <<>>
    /\ Done =>
         /\ response.status = 200
         /\ "errors" \in DOMAIN Report
         /\ Report.errors =
              << IF site.kind = "http" /\ ~ResOk(site)
                 THEN "Fetch failed " \o ToString(site.status) \o " for " \o base
                 ELSE IF site.message # "" THEN site.message
                 ELSE "Failed to fetch " \o base >>
         /\ Report.findings = <<>>
         /\ Report.anchorsToCheckout = <<>>
         /\ Report.formsToCheckout = <<>>
         /\ Report.summary.likelyHasCheckout = FALSE

C5_Witness ==
  /\ Done
  /\ site.kind = "http"
  /\ site.status = 500
  /\ \E k \in 1..Len(site.doc) :
        site.doc[k].tag = "script" /\ AttrOr(site.doc[k], "src", "") = "/a.js"
  /\ \E k \in 1..Len(site.doc) :
        site.doc[k].tag = "a" /\ AttrOr(site.doc[k], "href", "") = "/cart"

\* the form tags of the page served whose action satisfies the anchors' test
FormsPassingAnchorTest ==
  {k \in 1..Len(site.doc) :
     site.doc[k].tag = "form" /\ AnchorTest(AttrOr(site.doc[k], "action", ""))}

\* C6: a form is recorded exactly when its action matches the pattern used
\* for anchors (checkout, cart, bag, payment or order, in any case).
C6_FormTestIsAnchorTest ==
  (Done /\ Retrieved(site)) => Len(formsToCheckout) = Cardinality(FormsPassingAnchorTest)

\* C7: the size of a successfully retrieved script is the value of the
\* content-length header when it is present and a number, and the length of
\* the text otherwise; it is never a non-number.
C7_SizeIsHeaderOrLength ==
  \A i \in 1..Len(fetched) :
    (~IsUnsettled(i) /\ Retrieved(arrived[i])) =>
       LET res == arrived[i]
           numeric == res.hasLength /\ res.contentLength # ""
                        /\ AllDigits(res.contentLength)
       IN  /\ fetched[i].size.t = "number"
           /\ fetched[i].size.v = (IF numeric THEN DigitsValue(res.contentLength, 0)
                                   ELSE Len(res.text))

\* the positions of text at which the literal word occurs, in any case
LiteralPositions(text, word) ==
  {q \in 1..Len(text) :
     q + Len(word) - 1 <= Len(text)
       /\ ToLowerCase(SubSeq(text, q, q + Len(word) - 1)) = word}

\* signatures that are one literal word which cannot overlap itself
LiteralSignatures == {"klarna", "adyen", "paypal"}

\* the entry of signature label in a list of matches, as a set
EntriesOf(ms, label) == {j \in 1..Len(ms) : ms[j].pattern = label}

\* C8: for every signature and every script text, the count is the number
\* of non-overlapping occurrences in the whole text (what the scan finds when
\* it is not stopped), the snippets are min(3, count) many, and a signature
\* has an entry exactly when it occurs.
C8_CountIsNotCappedBySnippets ==
  Done =>
    \A k \in 1..Len(findings) : \A n \in 1..Len(PATTERNS) :
      LET text  == TextOfFinding(k)
          p     == PATTERNS[n]
          all   == Len(getSnippets(text, p.regex, Len(text) + 1))
          found == EntriesOf(findings[k].matches, p.label)
      IN  /\ Cardinality(found) = (IF all > 0 THEN 1 ELSE 0)
          /\ \A j \in found :
                /\ findings[k].matches[j].count = all
                /\ Len(findings[k].matches[j].snippets) = Min(3, all)
                /\ p.label \in LiteralSignatures =>
                     findings[k].matches[j].count
                       = Cardinality(LiteralPositions(text, p.label))
          /\ (p.label \in LiteralSignatures /\ found = {}) =>
                LiteralPositions(text, p.label) = {}

C8_Witness ==
  /\ Done
  /\ \E k \in 1..Len(findings) : \E j \in 1..Len(findings[k].matches) :
        /\ findings[k].matches[j].count > 3
        /\ Len(findings[k].matches[j].snippets) = 3

StrongLabels ==
  {"begin_checkout (gtag)", "InitiateCheckout (fbq)", "checkout endpoints",
   "Stripe", "Shopify"}

\* C9: the verdict is true exactly when a listed finding has a match of a
\* strong signature or some script has matches; anchors and forms only add
\* their indicators, the anchors' before the forms'.
C9_VerdictFromScriptsOnly ==
  Done =>
    LET fs      == Report.findings
        strong  == \E k \in 1..Len(fs) : \E j \in 1..Len(fs[k].matches) :
                      fs[k].matches[j].pattern \in StrongLabels
        matched == {k \in 1..Len(fs) : fs[k].matches # <<>>}
    IN  /\ Report.summary.scriptsWithMatches = Cardinality(matched)
        /\ Report.summary.likelyHasCheckout
             = (strong \/ Report.summary.scriptsWithMatches > 0)
        /\ Report.summary.indicators =
             (IF Report.anchorsToCheckout # <<>> THEN <<AnchorsIndicator>> ELSE <<>>)
             \o (IF Report.formsToCheckout # <<>> THEN <<FormsIndicator>> ELSE <<>>)

C9_Witness ==
  /\ Done
  /\ Report.anchorsToCheckout # <<>>
  /\ Report.formsToCheckout # <<>>
  /\ Report.summary.scriptsWithMatches = 0
  /\ Report.summary.likelyHasCheckout = FALSE
  /\ Report.summary.indicators = <<AnchorsIndicator, FormsIndicator>>

\* the findings that pass the report's filter, in the order of findings, as
\* the client receives them
RECURSIVE FilteredFrom(_)
FilteredFrom(k) ==
  IF k > Len(findings) THEN <<>>
  ELSE (IF k \in SurfacedPositions THEN <<JsonFinding(findings[k])>> ELSE <<>>)
         \o FilteredFrom(k + 1)

IsCappedPrefix(short, long, cap) ==
  /\ Len(short) = Min(cap, Len(long))
  /\ \A k \in 1..Len(short) : short[k] = long[k]

\* C10: the report lists at most 60 findings, 50 anchors and 50 forms, and
\* each list is the head of the filtered list it is cut from, in its order.
C10_ListsAreCappedPrefixes ==
  Done =>
    /\ Len(Report.findings) <= 60
    /\ Len(Report.anchorsToCheckout) <= 50
    /\ Len(Report.formsToCheckout) <= 50
    /\ IsCappedPrefix(Report.findings, FilteredFrom(1), 60)
    /\ IsCappedPrefix(Report.anchorsToCheckout, anchorsToCheckout, 50)
    /\ IsCappedPrefix(Report.formsToCheckout, formsToCheckout, 50)

C10_Witness ==
  /\ Done
  /\ Cardinality(SurfacedPositions) > 60
  /\ Len(anchorsToCheckout) > 50
  /\ Len(formsToCheckout) > 50
  /\ Len(Report.findings) = 60
  /\ \E k \in 1..Len(findings) : ~findings[k].inline

=============================================================================
